---- MODULE Spec2Model ----
(***************************************************************************)
(* Model of the linked-list exercises under                                *)
(* src/experiments/codesignal/linked_list.  A node is an identity in       *)
(* Nodes; the heap is the pair of functions val (Node.value) and next      *)
(* (Node.next).  Each exercise is a separate program: Init picks one       *)
(* (alg) together with its input, and the actions of that program run      *)
(* its code, one action per loop iteration.                                *)
(***************************************************************************)
EXTENDS Integers, Sequences, FiniteSets, TLC

VARIABLES alg, arg, val, next, in_next, loc, pc, ret, self

vars == <<alg, arg, val, next, in_next, loc, pc, ret, self>>

\* ------------------------------------------------------------------ bounds
MaxLen == 5        \* longest input chain of the exercises that never read values
MaxValuedLen == 4  \* longest input chain of the exercises that read values
MaxVal == 3        \* node values are 1..MaxVal
MaxListLen == 3    \* MyLinkedList is grown up to this length

\* --------------------------------------------------------------- the heap
None == 0
LongestInput ==
  IF MaxLen >= MaxValuedLen /\ MaxLen >= MaxListLen THEN MaxLen
  ELSE IF MaxValuedLen >= MaxListLen THEN MaxValuedLen
  ELSE MaxListLen
MaxNodes == LongestInput + 2          \* input nodes plus the dummy nodes
Nodes == 1..MaxNodes
Values == 1..MaxVal

\* Node.__init__: a fresh node has next = None
NoLinks == [i \in Nodes |-> None]

\* convertArrayToList: nodes 1..L linked in input order, head is node 1
ConvertArrayToList(L) == [i \in Nodes |-> IF i < L THEN i + 1 ELSE None]

HeadOf(L) == IF L = 0 THEN None ELSE 1

\* the node sequence reachable from h (printList / countNodes traversal);
\* fuel stops the walk on a cyclic heap, which then yields MaxNodes+1 nodes
RECURSIVE Walk(_, _, _)
Walk(nx, h, fuel) ==
  IF h = None \/ fuel = 0 THEN <<>>
  ELSE <<h>> \o Walk(nx, nx[h], fuel - 1)

Chain(nx, h) == Walk(nx, h, MaxNodes + 1)

ValuesOf(s) == [i \in 1..Len(s) |-> val[s[i]]]

\* results of a call
Pending == [kind |-> "pending"]
Returned(v) == [kind |-> "return", v |-> v]
Raised(e) == [kind |-> "raise", exc |-> e]

NoSelf == [head |-> None, length |-> 0]
NoLoc == [none |-> TRUE]

\* the input of a single-chain exercise: the original sequence of nodes
InChain == Chain(in_next, arg.head)

\* payload of the chains whose algorithm never reads Node.value
IndexValues == [i \in Nodes |-> i]

\* ============================================================ reverse in k
\* build_linked_list.py findTail
RECURSIVE findTail_while(_, _, _, _)
findTail_while(head, node, i, k) ==
  IF i < k
  THEN IF next[node] = None
       THEN <<head, FALSE>>
       ELSE findTail_while(head, next[node], i + 1, k)
  ELSE <<node, TRUE>>

\* mutation: a run shorter than k is reported as a full group
RECURSIVE findTail_while_short(_, _, _, _)
findTail_while_short(head, node, i, k) ==
  IF i < k /\ next[node] # None
  THEN findTail_while_short(head, next[node], i + 1, k)
  ELSE <<node, TRUE>>

findTail_short(head, k) ==
  IF head = None THEN <<None, FALSE>>
  ELSE findTail_while_short(head, head, 1, k)

findTail(head, k) ==
  IF head = None THEN <<None, FALSE>> ELSE findTail_while(head, head, 1, k)

\* build_linked_list.py reverseHeadToTail: the while loop, on heap nx
RECURSIVE reverseHeadToTail_while(_, _, _, _)
reverseHeadToTail_while(nx, head, newList, tailNext) ==
  IF head # None /\ head # tailNext
  THEN reverseHeadToTail_while(
         [nx EXCEPT ![head] = IF newList = None THEN tailNext ELSE newList],
         nx[head], head, tailNext)
  ELSE [next |-> nx, newList |-> newList]

reverseHeadToTail(head, tail) ==
  LET r == reverseHeadToTail_while(next, head, None, next[tail])
  IN [next |-> r.next, newHead |-> r.newList, newTail |-> head]

Init_reverseListKAtATime ==
  \E L \in 0..MaxLen, k \in 1..(MaxLen + 1) :
    /\ alg = "reverseListKAtATime"
    /\ arg = [head |-> HeadOf(L), k |-> k]
    /\ val = IndexValues
    /\ next = ConvertArrayToList(L)
    /\ loc = [firstTime |-> TRUE, newHead |-> HeadOf(L),
              firstHead |-> HeadOf(L), prevTail |-> HeadOf(L)]

\* one iteration of `while True` whose findTail succeeds
reverseListKAtATime_while ==
  /\ alg = "reverseListKAtATime" /\ pc = "run"
  /\ LET t == findTail(loc.newHead, arg.k)
         tail == t[1]
     IN /\ t[2] # FALSE
        /\ LET nextHead == next[tail]
               r == reverseHeadToTail(loc.newHead, tail)
           IN /\ next' = IF loc.firstTime THEN r.next
                         ELSE [r.next EXCEPT ![loc.prevTail] = r.newHead]
              /\ loc' = IF loc.firstTime
                        THEN [loc EXCEPT !.firstHead = r.newHead,
                                         !.firstTime = FALSE,
                                         !.newHead = nextHead]
                        ELSE [loc EXCEPT !.prevTail = r.newTail,
                                         !.newHead = nextHead]
  /\ UNCHANGED <<alg, arg, val, in_next, pc, ret, self>>

\* the iteration whose findTail fails: break, return firstHead
reverseListKAtATime_return ==
  /\ alg = "reverseListKAtATime" /\ pc = "run"
  /\ findTail(loc.newHead, arg.k)[2] = FALSE
  /\ pc' = "done"
  /\ ret' = Returned(loc.firstHead)
  /\ UNCHANGED <<alg, arg, val, next, in_next, loc, self>>

\* ========================================================= reverseBetween
\* reverse_linked_list2.py reverseList(head, tail): the while loop, on heap nx
RECURSIVE reverseBetween_reverseList_while(_, _, _, _)
reverseBetween_reverseList_while(nx, head, tail, newList) ==
  IF head # tail
  THEN reverseBetween_reverseList_while([nx EXCEPT ![head] = newList],
                                        nx[head], tail, head)
  ELSE [next |-> nx, newList |-> newList]

\* mutation: tail.next = newList is missing
reverseBetween_reverseList_unlinked(nx, head, tail) ==
  LET r == reverseBetween_reverseList_while(nx, head, tail, None)
  IN [next |-> r.next, h |-> tail, t |-> head]

\* reverse_linked_list2.py reverseList(head, tail) -> (newList, lastElement)
reverseBetween_reverseList(nx, head, tail) ==
  LET r == reverseBetween_reverseList_while(nx, head, tail, None)
  IN [next |-> [r.next EXCEPT ![tail] = r.newList],
      h |-> tail, t |-> head]

Init_reverseBetween ==
  \E L \in 1..MaxLen :
    \E m \in 1..L :
      \E n \in m..L :
        /\ alg = "reverseBetween"
        /\ arg = [head |-> 1, m |-> m, n |-> n]
        /\ val = IndexValues
        /\ next = ConvertArrayToList(L)
        /\ loc = [node1 |-> 1, node2 |-> 1, prev2 |-> None, i |-> 1]

\* if m == n: return head
reverseBetween_same ==
  /\ alg = "reverseBetween" /\ pc = "run"
  /\ arg.m = arg.n
  /\ pc' = "done"
  /\ ret' = Returned(arg.head)
  /\ UNCHANGED <<alg, arg, val, next, in_next, loc, self>>

\* one test of `while node1:` and, when it passes, one iteration
reverseBetween_while ==
  /\ alg = "reverseBetween" /\ pc = "run"
  /\ arg.m # arg.n
  /\ IF loc.node1 = None
     THEN /\ pc' = "after"
          /\ loc' = loc
     ELSE LET i == loc.i + 1
              move == i > (arg.n - arg.m + 1)
          IN /\ loc' = [node1 |-> next[loc.node1],
                        node2 |-> IF move THEN next[loc.node2] ELSE loc.node2,
                        prev2 |-> IF move THEN loc.node2 ELSE loc.prev2,
                        i |-> i]
             /\ pc' = IF i = arg.n THEN "after" ELSE "run"
  /\ UNCHANGED <<alg, arg, val, next, in_next, ret, self>>

\* the code after the loop: reverse node2..node1 and relink both ends
reverseBetween_relink ==
  /\ alg = "reverseBetween" /\ pc = "after"
  /\ pc' = "done"
  /\ IF loc.node1 = None
     THEN /\ ret' = Raised("AttributeError")
          /\ next' = next
     ELSE LET node1next == next[loc.node1]
              r == reverseBetween_reverseList(next, loc.node2, loc.node1)
              nx == IF loc.prev2 # None
                    THEN [r.next EXCEPT ![loc.prev2] = r.h]
                    ELSE r.next
              head == IF loc.prev2 # None THEN arg.head ELSE r.h
          IN /\ next' = [nx EXCEPT ![r.t] = node1next]
             /\ ret' = Returned(head)
  /\ UNCHANGED <<alg, arg, val, in_next, loc, self>>

\* =========================================================== detectCycle2
Init_detectCycle2 ==
  \E L \in 0..MaxLen :
    \E back \in {None} \cup (1..L) :
      /\ alg = "detectCycle2"
      /\ arg = [head |-> HeadOf(L)]
      /\ val = IndexValues
      /\ next = [i \in Nodes |-> IF i = L THEN back
                                 ELSE ConvertArrayToList(L)[i]]
      /\ loc = [slow |-> HeadOf(L), fast |-> HeadOf(L), isCycle |-> FALSE,
                node |-> None]

\* `while fast and slow` holds and fast.next.next does not raise
detectCycle2_while ==
  /\ alg = "detectCycle2" /\ pc = "run"
  /\ loc.fast # None /\ loc.slow # None
  /\ next[loc.fast] # None
  /\ LET fast == next[next[loc.fast]]
         slow == next[loc.slow]
     IN IF fast = slow
        THEN /\ loc' = [slow |-> slow, fast |-> fast, isCycle |-> TRUE,
                        node |-> arg.head]
             /\ pc' = "entry"
        ELSE /\ loc' = [loc EXCEPT !.slow = slow, !.fast = fast]
             /\ pc' = "run"
  /\ UNCHANGED <<alg, arg, val, next, in_next, ret, self>>

\* fast.next is None, so fast.next.next raises; except: return None
detectCycle2_except ==
  /\ alg = "detectCycle2" /\ pc = "run"
  /\ loc.fast # None /\ loc.slow # None
  /\ next[loc.fast] = None
  /\ pc' = "done"
  /\ ret' = Returned(None)
  /\ UNCHANGED <<alg, arg, val, next, in_next, loc, self>>

\* `while fast and slow` fails: isCycle is False, return None
detectCycle2_nocycle ==
  /\ alg = "detectCycle2" /\ pc = "run"
  /\ (loc.fast = None \/ loc.slow = None)
  /\ pc' = "done"
  /\ ret' = Returned(None)
  /\ UNCHANGED <<alg, arg, val, next, in_next, loc, self>>

\* one iteration of `while node != slow`
detectCycle2_entry ==
  /\ alg = "detectCycle2" /\ pc = "entry"
  /\ loc.node # loc.slow
  /\ loc' = [loc EXCEPT !.node = next[loc.node], !.slow = next[loc.slow]]
  /\ UNCHANGED <<alg, arg, val, next, in_next, pc, ret, self>>

\* mutation: the meeting point is returned as the entry
detectCycle2_return_meeting ==
  /\ alg = "detectCycle2" /\ pc = "entry"
  /\ pc' = "done"
  /\ ret' = Returned(loc.slow)
  /\ UNCHANGED <<alg, arg, val, next, in_next, loc, self>>

\* node == slow: return node
detectCycle2_return ==
  /\ alg = "detectCycle2" /\ pc = "entry"
  /\ loc.node = loc.slow
  /\ pc' = "done"
  /\ ret' = Returned(loc.node)
  /\ UNCHANGED <<alg, arg, val, next, in_next, loc, self>>

\* ============================================================== intersect
\* two chains of la and lb private nodes that run into c shared nodes
IntersectHeap(la, lb, c) ==
  LET shared == IF c = 0 THEN None ELSE la + lb + 1
  IN [i \in Nodes |->
        IF i = la \/ i = la + lb THEN shared
        ELSE IF i < la + lb + c THEN i + 1
        ELSE None]

Init_intersect ==
  \E la \in 0..MaxLen, lb \in 0..MaxLen, c \in 0..MaxLen :
    /\ la + c <= MaxLen /\ lb + c <= MaxLen /\ la + lb + c <= MaxNodes
    /\ alg = "intersect"
    /\ LET shared == IF c = 0 THEN None ELSE la + lb + 1
           headA == IF la = 0 THEN shared ELSE 1
           headB == IF lb = 0 THEN shared ELSE la + 1
       IN /\ arg = [headA |-> headA, headB |-> headB]
          /\ loc = [a |-> headA, b |-> headB, steps |-> 0]
    /\ val = IndexValues
    /\ next = IntersectHeap(la, lb, c)

\* mutation: a pointer that reached None stays there
intersect_while_stay ==
  /\ alg = "intersect" /\ pc = "run"
  /\ loc.a # loc.b
  /\ loc' = [a |-> IF loc.a = None THEN None ELSE next[loc.a],
             b |-> IF loc.b = None THEN None ELSE next[loc.b],
             steps |-> loc.steps + 1]
  /\ UNCHANGED <<alg, arg, val, next, in_next, pc, ret, self>>

\* mutation: each pointer restarts at the head of its own chain
intersect_while_own ==
  /\ alg = "intersect" /\ pc = "run"
  /\ loc.a # loc.b
  /\ loc' = [a |-> IF loc.a = None THEN arg.headA ELSE next[loc.a],
             b |-> IF loc.b = None THEN arg.headB ELSE next[loc.b],
             steps |-> loc.steps + 1]
  /\ UNCHANGED <<alg, arg, val, next, in_next, pc, ret, self>>

\* one iteration of `while a != b`; steps counts the iterations made so far
intersect_while ==
  /\ alg = "intersect" /\ pc = "run"
  /\ loc.a # loc.b
  /\ loc' = [a |-> IF loc.a = None THEN arg.headB ELSE next[loc.a],
             b |-> IF loc.b = None THEN arg.headA ELSE next[loc.b],
             steps |-> loc.steps + 1]
  /\ UNCHANGED <<alg, arg, val, next, in_next, pc, ret, self>>

\* a == b: return a
intersect_return ==
  /\ alg = "intersect" /\ pc = "run"
  /\ loc.a = loc.b
  /\ pc' = "done"
  /\ ret' = Returned(loc.a)
  /\ UNCHANGED <<alg, arg, val, next, in_next, loc, self>>

\* ========================================================== insertionSort
\* dummy nodes (Node(0)) are allocated after the input nodes
Dummy1 == MaxNodes - 1
Dummy2 == MaxNodes

\* a chain of L nodes holding the values v[1..L]; the other slots hold 0,
\* the value every dummy node is created with
ValuesHeap(L, v) == [i \in Nodes |-> IF i <= L THEN v[i] ELSE 0]

\* mutation: the scan also passes nodes of equal value
RECURSIVE insertNode_while_le(_, _, _)
insertNode_while_le(n, prev, node) ==
  IF n # None /\ val[n] <= val[node]
  THEN insertNode_while_le(next[n], n, node)
  ELSE [n |-> n, prev |-> prev]

\* insertion_sort.py insertNode: `while n and n.value < node.value`
RECURSIVE insertNode_while(_, _, _)
insertNode_while(n, prev, node) ==
  IF n # None /\ val[n] < val[node]
  THEN insertNode_while(next[n], n, node)
  ELSE [n |-> n, prev |-> prev]

\* insertion_sort.py insertNode(head, node) -> head, relinking the heap
insertNode(head, node) ==
  IF head = None
  THEN [next |-> [next EXCEPT ![node] = None], head |-> node]
  ELSE LET w == insertNode_while(head, None, node)
       IN IF w.prev = None
          THEN [next |-> [next EXCEPT ![node] = head], head |-> node]
          ELSE [next |-> [next EXCEPT ![node] = w.n, ![w.prev] = node],
                head |-> head]

Init_insertionSort ==
  \E L \in 0..MaxValuedLen :
    \E v \in [1..L -> Values] :
      /\ alg = "insertionSort"
      /\ arg = [head |-> HeadOf(L)]
      /\ val = ValuesHeap(L, v)
      /\ next = ConvertArrayToList(L)
      /\ loc = [head |-> HeadOf(L), newList |-> None]

\* one iteration of `while head`
insertionSort_while ==
  /\ alg = "insertionSort" /\ pc = "run"
  /\ loc.head # None
  /\ LET n == next[loc.head]
         r == insertNode(loc.newList, loc.head)
     IN /\ next' = r.next
        /\ loc' = [head |-> n, newList |-> r.head]
  /\ UNCHANGED <<alg, arg, val, in_next, pc, ret, self>>

insertionSort_return ==
  /\ alg = "insertionSort" /\ pc = "run"
  /\ loc.head = None
  /\ pc' = "done"
  /\ ret' = Returned(loc.newList)
  /\ UNCHANGED <<alg, arg, val, next, in_next, loc, self>>

\* ======================================================= removeDuplicates
NonDecreasing(v, L) == \A i \in 1..L : \A j \in 1..L : i < j => v[i] <= v[j]

\* remove_duplicates.py line 22: `while cur.next and cur.value == cur.next.value`
RECURSIVE removeDuplicates_inner(_)
removeDuplicates_inner(cur) ==
  IF next[cur] # None /\ val[cur] = val[next[cur]]
  THEN removeDuplicates_inner(next[cur])
  ELSE cur

Init_removeDuplicates ==
  \E L \in 0..MaxValuedLen :
    \E v \in [1..L -> Values] :
      /\ NonDecreasing(v, L)
      /\ alg = "removeDuplicates"
      /\ arg = [head |-> HeadOf(L)]
      /\ val = ValuesHeap(L, v)
      /\ next = ConvertArrayToList(L)
      /\ loc = [fakeHead |-> None, pre |-> None, cur |-> None]

\* `if not head: return head`, else the set-up before the loop
removeDuplicates_enter ==
  /\ alg = "removeDuplicates" /\ pc = "run"
  /\ IF arg.head = None
     THEN /\ pc' = "done"
          /\ ret' = Returned(arg.head)
          /\ UNCHANGED <<next, val, loc>>
     ELSE /\ pc' = "loop"
          /\ val' = [val EXCEPT ![Dummy1] = 0]
          /\ next' = [next EXCEPT ![Dummy1] = arg.head]
          /\ loc' = [fakeHead |-> Dummy1, pre |-> Dummy1, cur |-> arg.head]
          /\ ret' = ret
  /\ UNCHANGED <<alg, arg, in_next, self>>

\* mutation: a run of equal values keeps its last node
removeDuplicates_while_keep ==
  /\ alg = "removeDuplicates" /\ pc = "loop"
  /\ loc.cur # None
  /\ LET cur == removeDuplicates_inner(loc.cur)
     IN IF next[loc.pre] = cur
        THEN /\ loc' = [loc EXCEPT !.pre = next[loc.pre], !.cur = next[cur]]
             /\ next' = next
        ELSE /\ next' = [next EXCEPT ![loc.pre] = cur]
             /\ loc' = [loc EXCEPT !.pre = cur, !.cur = next[cur]]
  /\ UNCHANGED <<alg, arg, val, in_next, pc, ret, self>>

\* one iteration of `while cur != None`
removeDuplicates_while ==
  /\ alg = "removeDuplicates" /\ pc = "loop"
  /\ loc.cur # None
  /\ LET cur == removeDuplicates_inner(loc.cur)
     IN IF next[loc.pre] = cur
        THEN /\ loc' = [loc EXCEPT !.pre = next[loc.pre], !.cur = next[cur]]
             /\ next' = next
        ELSE /\ next' = [next EXCEPT ![loc.pre] = next[cur]]
             /\ loc' = [loc EXCEPT !.cur = next[cur]]
  /\ UNCHANGED <<alg, arg, val, in_next, pc, ret, self>>

removeDuplicates_return ==
  /\ alg = "removeDuplicates" /\ pc = "loop"
  /\ loc.cur = None
  /\ pc' = "done"
  /\ ret' = Returned(next[loc.fakeHead])
  /\ UNCHANGED <<alg, arg, val, next, in_next, loc, self>>

\* remove_duplicates.py line 37: `while n.next and n.next.value == cur.value`
RECURSIVE removeDuplicates2_inner(_, _)
removeDuplicates2_inner(n, cur) ==
  IF next[n] # None /\ val[next[n]] = val[cur]
  THEN removeDuplicates2_inner(next[n], cur)
  ELSE n

Init_removeDuplicates2 ==
  \E L \in 0..MaxValuedLen :
    \E v \in [1..L -> Values] :
      /\ NonDecreasing(v, L)
      /\ alg = "removeDuplicates2"
      /\ arg = [head |-> HeadOf(L)]
      /\ val = ValuesHeap(L, v)
      /\ next = ConvertArrayToList(L)
      /\ loc = [cur |-> HeadOf(L)]

\* one iteration of `while cur != None`
removeDuplicates2_while ==
  /\ alg = "removeDuplicates2" /\ pc = "run"
  /\ loc.cur # None
  /\ LET n == removeDuplicates2_inner(loc.cur, loc.cur)
     IN IF loc.cur = n
        THEN /\ loc' = [cur |-> next[loc.cur]]
             /\ next' = next
        ELSE /\ next' = [next EXCEPT ![loc.cur] = next[n]]
             /\ loc' = loc
  /\ UNCHANGED <<alg, arg, val, in_next, pc, ret, self>>

\* `if not head: return head`, or the loop has ended: return head
removeDuplicates2_return ==
  /\ alg = "removeDuplicates2" /\ pc = "run"
  /\ loc.cur = None
  /\ pc' = "done"
  /\ ret' = Returned(arg.head)
  /\ UNCHANGED <<alg, arg, val, next, in_next, loc, self>>

\* ============================================================== partition
Pivots == 0..(MaxVal + 1)

Init_partition ==
  \E L \in 0..MaxValuedLen :
    \E v \in [1..L -> Values] :
      \E value \in Pivots :
        /\ alg = "partition"
        /\ arg = [head |-> HeadOf(L), value |-> value]
        /\ val = ValuesHeap(L, v)
        /\ next = ConvertArrayToList(L)
        /\ loc = [head |-> HeadOf(L), cur |-> None, prev |-> None,
                  newHead |-> None, n |-> None]

\* `if not head: return head`, else the set-up before the loop
partition_enter ==
  /\ alg = "partition" /\ pc = "run"
  /\ IF arg.head = None
     THEN /\ pc' = "done"
          /\ ret' = Returned(arg.head)
          /\ UNCHANGED <<val, next, loc>>
     ELSE /\ pc' = "loop"
          /\ val' = [val EXCEPT ![Dummy1] = 0]
          /\ next' = [next EXCEPT ![Dummy1] = None]
          /\ loc' = [head |-> arg.head, cur |-> arg.head, prev |-> None,
                     newHead |-> Dummy1, n |-> Dummy1]
          /\ ret' = ret
  /\ UNCHANGED <<alg, arg, in_next, self>>

\* one iteration of `while cur != None`
partition_while ==
  /\ alg = "partition" /\ pc = "loop"
  /\ loc.cur # None
  /\ IF val[loc.cur] >= arg.value
     THEN LET node == loc.cur
              nx1 == IF loc.prev # None
                     THEN [next EXCEPT ![loc.prev] = next[node]]
                     ELSE next
              head == IF loc.prev # None THEN loc.head ELSE next[loc.head]
              cur == IF loc.prev # None THEN next[node] ELSE head
          IN /\ next' = [nx1 EXCEPT ![node] = None, ![loc.n] = node]
             /\ loc' = [loc EXCEPT !.head = head, !.cur = cur, !.n = node]
     ELSE /\ loc' = [loc EXCEPT !.prev = loc.cur, !.cur = next[loc.cur]]
          /\ next' = next
  /\ UNCHANGED <<alg, arg, val, in_next, pc, ret, self>>

\* after the loop: hang the >= chain behind prev, or return it
partition_return ==
  /\ alg = "partition" /\ pc = "loop"
  /\ loc.cur = None
  /\ pc' = "done"
  /\ IF loc.prev # None
     THEN /\ next' = [next EXCEPT ![loc.prev] = next[loc.newHead]]
          /\ ret' = Returned(loc.head)
     ELSE /\ next' = next
          /\ ret' = Returned(next[loc.newHead])
  /\ UNCHANGED <<alg, arg, val, in_next, loc, self>>

Init_partition2 ==
  \E L \in 0..MaxValuedLen :
    \E v \in [1..L -> Values] :
      \E value \in Pivots :
        /\ alg = "partition2"
        /\ arg = [head |-> HeadOf(L), value |-> value]
        /\ val = ValuesHeap(L, v)
        /\ next = ConvertArrayToList(L)
        /\ loc = [head |-> HeadOf(L), left |-> Dummy1, right |-> Dummy2,
                  l |-> Dummy1, r |-> Dummy2]

\* one iteration of `while head != None`
partition2_while ==
  /\ alg = "partition2" /\ pc = "run"
  /\ loc.head # None
  /\ IF val[loc.head] < arg.value
     THEN /\ next' = [next EXCEPT ![loc.l] = loc.head]
          /\ loc' = [loc EXCEPT !.l = next'[loc.l], !.head = next'[loc.head]]
     ELSE /\ next' = [next EXCEPT ![loc.r] = loc.head]
          /\ loc' = [loc EXCEPT !.r = next'[loc.r], !.head = next'[loc.head]]
  /\ UNCHANGED <<alg, arg, val, in_next, pc, ret, self>>

\* mutation: r.next = None is missing
partition2_return_open ==
  /\ alg = "partition2" /\ pc = "run"
  /\ loc.head = None
  /\ pc' = "done"
  /\ next' = [next EXCEPT ![loc.l] = next[loc.right]]
  /\ ret' = Returned(next'[loc.left])
  /\ UNCHANGED <<alg, arg, val, in_next, loc, self>>

\* after the loop: l.next = right.next; r.next = None; return left.next
partition2_return ==
  /\ alg = "partition2" /\ pc = "run"
  /\ loc.head = None
  /\ pc' = "done"
  /\ LET nx == [next EXCEPT ![loc.l] = next[loc.right]]
     IN next' = [nx EXCEPT ![loc.r] = None]
  /\ ret' = Returned(next'[loc.left])
  /\ UNCHANGED <<alg, arg, val, in_next, loc, self>>

\* ============================================================ isPalidrome
\* palindrome.py listLength
RECURSIVE listLength(_)
listLength(head) == IF head # None THEN 1 + listLength(next[head]) ELSE 0

\* palindrome.py getMid: `while n2 and n2.next`
RECURSIVE getMid_while(_, _)
getMid_while(n1, n2) ==
  IF n2 # None /\ next[n2] # None
  THEN getMid_while(next[n1], next[next[n2]])
  ELSE n1

getMid(head) == getMid_while(head, head)

\* palindrome.py reverseList: `while n`, on heap nx
RECURSIVE palindrome_reverseList_while(_, _, _)
palindrome_reverseList_while(nx, n, newList) ==
  IF n # None
  THEN palindrome_reverseList_while([nx EXCEPT ![n] = newList], nx[n], n)
  ELSE [next |-> nx, newList |-> newList]

\* mutation: the second half is left in its original order
palindrome_reverseList_noop(head) == [next |-> next, newList |-> head]

\* palindrome.py reverseList(head) -> newList
palindrome_reverseList(head) == palindrome_reverseList_while(next, head, None)

Init_isPalidrome ==
  \E L \in 0..MaxValuedLen :
    \E v \in [1..L -> Values] :
      /\ alg = "isPalidrome"
      /\ arg = [head |-> HeadOf(L)]
      /\ val = ValuesHeap(L, v)
      /\ next = ConvertArrayToList(L)
      /\ loc = [head |-> HeadOf(L), midElement |-> None, newList |-> None]

\* find the middle, skip it when the length is odd, reverse the second half
isPalidrome_enter ==
  /\ alg = "isPalidrome" /\ pc = "run"
  /\ LET mid == getMid(arg.head)
         midElement == IF listLength(arg.head) % 2 = 1 THEN next[mid] ELSE mid
         r == palindrome_reverseList(midElement)
     IN /\ next' = r.next
        /\ loc' = [head |-> arg.head, midElement |-> midElement,
                   newList |-> r.newList]
  /\ pc' = "loop"
  /\ UNCHANGED <<alg, arg, val, in_next, ret, self>>

\* one iteration of `while head and newList`
isPalidrome_while ==
  /\ alg = "isPalidrome" /\ pc = "loop"
  /\ loc.head # None /\ loc.newList # None
  /\ IF val[loc.head] # val[loc.newList]
     THEN /\ pc' = "done"
          /\ ret' = Returned(FALSE)
          /\ loc' = loc
     ELSE /\ loc' = [loc EXCEPT !.head = next[loc.head],
                                !.newList = next[loc.newList]]
          /\ UNCHANGED <<pc, ret>>
  /\ UNCHANGED <<alg, arg, val, next, in_next, self>>

\* the loop has ended without a mismatch: return True
isPalidrome_true ==
  /\ alg = "isPalidrome" /\ pc = "loop"
  /\ (loc.head = None \/ loc.newList = None)
  /\ pc' = "done"
  /\ ret' = Returned(TRUE)
  /\ UNCHANGED <<alg, arg, val, next, in_next, loc, self>>

\* ========================================================= removeNthFromEnd
Init_removeNthFromEnd2 ==
  \E L \in 1..MaxLen :
    \E n \in 1..L :
      /\ alg = "removeNthFromEnd2"
      /\ arg = [head |-> 1, n |-> n]
      /\ val = IndexValues
      /\ next = ConvertArrayToList(L)
      /\ loc = [node |-> 1, prev |-> None, nth |-> 1, i |-> 1]

\* one iteration of `while node != None`
removeNthFromEnd2_while ==
  /\ alg = "removeNthFromEnd2" /\ pc = "run"
  /\ loc.node # None
  /\ loc' = [node |-> next[loc.node],
             prev |-> IF loc.i > arg.n THEN loc.nth ELSE loc.prev,
             nth |-> IF loc.i > arg.n THEN next[loc.nth] ELSE loc.nth,
             i |-> loc.i + 1]
  /\ UNCHANGED <<alg, arg, val, next, in_next, pc, ret, self>>

\* mutation: the chain is cut at prev instead of bridged over nth
removeNthFromEnd2_return_cut ==
  /\ alg = "removeNthFromEnd2" /\ pc = "run"
  /\ loc.node = None
  /\ pc' = "done"
  /\ IF loc.prev = None
     THEN /\ ret' = Returned(next[loc.nth])
          /\ next' = next
     ELSE /\ next' = [next EXCEPT ![loc.prev] = None]
          /\ ret' = Returned(arg.head)
  /\ UNCHANGED <<alg, arg, val, in_next, loc, self>>

\* after the loop: the three ways to unlink nth
removeNthFromEnd2_return ==
  /\ alg = "removeNthFromEnd2" /\ pc = "run"
  /\ loc.node = None
  /\ pc' = "done"
  /\ IF loc.prev = None
     THEN /\ ret' = Returned(next[loc.nth])
          /\ next' = next
     ELSE IF loc.nth = None
     THEN /\ next' = [next EXCEPT ![loc.prev] = None]
          /\ ret' = Returned(arg.head)
     ELSE /\ next' = [next EXCEPT ![loc.prev] = next[loc.nth]]
          /\ ret' = Returned(arg.head)
  /\ UNCHANGED <<alg, arg, val, in_next, loc, self>>

\* utils.py countNodes
RECURSIVE countNodes_while(_, _)
countNodes_while(node, i) ==
  IF node # None THEN countNodes_while(next[node], i + 1) ELSE i

countNodes(head) == countNodes_while(head, 0)

Init_removeNthFronEnd ==
  \E L \in 1..MaxLen :
    \E n \in 1..L :
      /\ alg = "removeNthFronEnd"
      /\ arg = [head |-> 1, n |-> n]
      /\ val = IndexValues
      /\ next = ConvertArrayToList(L)
      /\ loc = [node |-> None, prev |-> None, i |-> 0, n |-> 0]

\* removeNthFronEnd: N = countNodes(head), then the call of
\* removeNthFromBegining(head, N - n + 1) up to its loop
removeNthFronEnd_call ==
  /\ alg = "removeNthFronEnd" /\ pc = "run"
  /\ LET N == countNodes(arg.head)
     IN loc' = [node |-> arg.head, prev |-> None, i |-> 1,
                n |-> N - arg.n + 1]
  /\ pc' = "loop"
  /\ UNCHANGED <<alg, arg, val, next, in_next, ret, self>>

\* one iteration of `while i != n`
removeNthFromBegining_while ==
  /\ alg = "removeNthFronEnd" /\ pc = "loop"
  /\ loc.i # loc.n
  /\ IF loc.node = None
     THEN /\ pc' = "done"
          /\ ret' = Raised("AttributeError")
          /\ loc' = loc
     ELSE /\ loc' = [loc EXCEPT !.prev = loc.node, !.node = next[loc.node],
                                !.i = loc.i + 1]
          /\ UNCHANGED <<pc, ret>>
  /\ UNCHANGED <<alg, arg, val, next, in_next, self>>

\* after the loop: the three ways to unlink node
removeNthFromBegining_return ==
  /\ alg = "removeNthFronEnd" /\ pc = "loop"
  /\ loc.i = loc.n
  /\ pc' = "done"
  /\ IF loc.prev = None
     THEN /\ ret' = IF loc.node = None THEN Raised("AttributeError")
                    ELSE Returned(next[loc.node])
          /\ next' = next
     ELSE IF loc.node = None
     THEN /\ next' = [next EXCEPT ![loc.prev] = None]
          /\ ret' = Returned(arg.head)
     ELSE /\ next' = [next EXCEPT ![loc.prev] = next[loc.node]]
          /\ ret' = Returned(arg.head)
  /\ UNCHANGED <<alg, arg, val, in_next, loc, self>>

\* =========================================================== MyLinkedList
\* ListNode(val): the new object takes the first identity that no reference
\* from the list reaches any more
ListNode == CHOOSE i \in 1..MaxListLen :
              /\ i \notin {Chain(next, self.head)[j] :
                             j \in 1..Len(Chain(next, self.head))}
              /\ \A k \in 1..(i - 1) :
                   k \in {Chain(next, self.head)[j] :
                            j \in 1..Len(Chain(next, self.head))}

Indexes == (0 - 2)..(MaxListLen + 1)

\* the values stored in the list
ListValues == {1, 2}

\* the state of the object and the heap, as a method leaves them
Object(h, len, nx, vl) == [head |-> h, length |-> len, next |-> nx, val |-> vl]

\* linked_list.py get: `while index != count`
RECURSIVE get_while(_, _, _)
get_while(n, count, index) ==
  IF index # count
  THEN IF n = None THEN Raised("AttributeError")
       ELSE get_while(next[n], count + 1, index)
  ELSE IF n = None THEN Raised("AttributeError")
       ELSE Returned(val[n])

\* linked_list.py MyLinkedList.get
get(index) ==
  IF index + 1 > self.length \/ self.length = 0
  THEN Returned(-1)
  ELSE get_while(self.head, 0, index)

\* linked_list.py MyLinkedList.addAtHead
addAtHead(v) ==
  LET node == ListNode
  IN Object(node, self.length + 1,
            [next EXCEPT ![node] = IF self.length = 0 THEN None ELSE self.head],
            [val EXCEPT ![node] = v])

\* linked_list.py addAtTail: `while n`, returns prev
RECURSIVE addAtTail_while(_, _)
addAtTail_while(n, prev) ==
  IF n # None THEN addAtTail_while(next[n], n) ELSE prev

\* linked_list.py MyLinkedList.addAtTail
addAtTail(v) ==
  LET node == ListNode
  IN IF self.length = 0
     THEN Object(node, self.length + 1, [next EXCEPT ![node] = None],
                 [val EXCEPT ![node] = v])
     ELSE LET prev == addAtTail_while(self.head, None)
          IN Object(self.head, self.length + 1,
                    [next EXCEPT ![node] = None, ![prev] = node],
                    [val EXCEPT ![node] = v])

\* the walk `while count != index` of addAtIndex and deleteAtIndex
RECURSIVE index_while(_, _, _, _)
index_while(n, prev, count, index) ==
  IF count # index
  THEN IF n = None THEN [raised |-> TRUE, n |-> n, prev |-> prev]
       ELSE index_while(next[n], n, count + 1, index)
  ELSE [raised |-> FALSE, n |-> n, prev |-> prev]

\* mutation: an index beyond the length appends instead of being ignored
addAtIndex_clamp(index, v) ==
  IF index >= self.length
  THEN [raised |-> FALSE, obj |-> addAtTail(v)]
  ELSE IF index = 0
  THEN [raised |-> FALSE, obj |-> addAtHead(v)]
  ELSE LET node == ListNode
           w == index_while(self.head, None, 0, index)
       IN IF w.raised \/ w.prev = None
          THEN [raised |-> TRUE,
                obj |-> Object(self.head, self.length, next, val)]
          ELSE [raised |-> FALSE,
                obj |-> Object(self.head, self.length + 1,
                               [next EXCEPT ![w.prev] = node, ![node] = w.n],
                               [val EXCEPT ![node] = v])]

\* linked_list.py MyLinkedList.addAtIndex; raised tells an AttributeError
addAtIndex(index, v) ==
  IF index = self.length
  THEN [raised |-> FALSE, obj |-> addAtTail(v)]
  ELSE IF index = 0
  THEN [raised |-> FALSE, obj |-> addAtHead(v)]
  ELSE IF index < self.length
  THEN LET node == ListNode
           w == index_while(self.head, None, 0, index)
       IN IF w.raised \/ w.prev = None
          THEN [raised |-> TRUE,
                obj |-> Object(self.head, self.length, next, val)]
          ELSE [raised |-> FALSE,
                obj |-> Object(self.head, self.length + 1,
                               [next EXCEPT ![w.prev] = node, ![node] = w.n],
                               [val EXCEPT ![node] = v])]
  ELSE [raised |-> FALSE, obj |-> Object(self.head, self.length, next, val)]

\* nothing refers to a deleted node any more: the object is reclaimed and its
\* identity is free for the next ListNode(val)
Freed(f, n) == [f EXCEPT ![n] = 0]

\* linked_list.py MyLinkedList.deleteAtIndex; raised tells an AttributeError
deleteAtIndex(index) ==
  IF index + 1 <= self.length
  THEN LET w == index_while(self.head, None, 0, index)
       IN IF w.raised \/ (w.prev = None /\ self.head = None)
             \/ (w.prev # None /\ w.n = None)
          THEN [raised |-> TRUE,
                obj |-> Object(self.head, self.length, next, val)]
          ELSE IF w.prev = None
          THEN [raised |-> FALSE,
                obj |-> Object(next[self.head], self.length - 1,
                               Freed(next, self.head), Freed(val, self.head))]
          ELSE [raised |-> FALSE,
                obj |-> Object(self.head, self.length - 1,
                               Freed([next EXCEPT ![w.prev] = next[w.n]], w.n),
                               Freed(val, w.n))]
  ELSE [raised |-> FALSE, obj |-> Object(self.head, self.length, next, val)]

\* MyLinkedList(): head = None, length = 0
Init_MyLinkedList ==
  /\ alg = "MyLinkedList"
  /\ arg = [op |-> "__init__"]
  /\ val = [i \in Nodes |-> 0]
  /\ next = NoLinks
  /\ loc = NoLoc

\* obj.get(index)
MyLinkedList_get ==
  /\ alg = "MyLinkedList"
  /\ \E index \in Indexes :
       /\ arg' = [op |-> "get", index |-> index]
       /\ ret' = get(index)
  /\ UNCHANGED <<alg, val, next, in_next, loc, pc, self>>

\* obj.addAtHead(val)
MyLinkedList_addAtHead ==
  /\ alg = "MyLinkedList"
  /\ self.length < MaxListLen
  /\ \E v \in ListValues :
       LET o == addAtHead(v)
       IN /\ arg' = [op |-> "addAtHead", val |-> v]
          /\ self' = [head |-> o.head, length |-> o.length]
          /\ next' = o.next
          /\ val' = o.val
  /\ ret' = Returned(None)
  /\ UNCHANGED <<alg, in_next, loc, pc>>

\* obj.addAtTail(val)
MyLinkedList_addAtTail ==
  /\ alg = "MyLinkedList"
  /\ self.length < MaxListLen
  /\ \E v \in ListValues :
       LET o == addAtTail(v)
       IN /\ arg' = [op |-> "addAtTail", val |-> v]
          /\ self' = [head |-> o.head, length |-> o.length]
          /\ next' = o.next
          /\ val' = o.val
  /\ ret' = Returned(None)
  /\ UNCHANGED <<alg, in_next, loc, pc>>

\* obj.addAtIndex(index, val)
MyLinkedList_addAtIndex ==
  /\ alg = "MyLinkedList"
  /\ \E index \in Indexes : \E v \in ListValues :
       /\ (self.length < MaxListLen \/ index > self.length \/ index < 0)
       /\ LET r == addAtIndex(index, v)
          IN /\ arg' = [op |-> "addAtIndex", index |-> index, val |-> v]
             /\ self' = [head |-> r.obj.head, length |-> r.obj.length]
             /\ next' = r.obj.next
             /\ val' = r.obj.val
             /\ ret' = IF r.raised THEN Raised("AttributeError")
                       ELSE Returned(None)
  /\ UNCHANGED <<alg, in_next, loc, pc>>

\* obj.deleteAtIndex(index)
MyLinkedList_deleteAtIndex ==
  /\ alg = "MyLinkedList"
  /\ \E index \in Indexes :
       LET r == deleteAtIndex(index)
       IN /\ arg' = [op |-> "deleteAtIndex", index |-> index]
          /\ self' = [head |-> r.obj.head, length |-> r.obj.length]
          /\ next' = r.obj.next
          /\ val' = r.obj.val
          /\ ret' = IF r.raised THEN Raised("AttributeError")
                    ELSE Returned(None)
  /\ UNCHANGED <<alg, in_next, loc, pc>>

\* ================================================================= system
Init ==
  /\ \/ Init_reverseListKAtATime
     \/ Init_reverseBetween
     \/ Init_detectCycle2
     \/ Init_intersect
     \/ Init_insertionSort
     \/ Init_removeDuplicates
     \/ Init_removeDuplicates2
     \/ Init_partition
     \/ Init_partition2
     \/ Init_isPalidrome
     \/ Init_removeNthFromEnd2
     \/ Init_removeNthFronEnd
  /\ in_next = next
  /\ pc = "run"
  /\ ret = Pending
  /\ self = NoSelf

Next ==
  \/ reverseListKAtATime_while
  \/ reverseListKAtATime_return
  \/ reverseBetween_same
  \/ reverseBetween_while
  \/ reverseBetween_relink
  \/ detectCycle2_while
  \/ detectCycle2_except
  \/ detectCycle2_nocycle
  \/ detectCycle2_entry
  \/ detectCycle2_return
  \/ intersect_while
  \/ intersect_return
  \/ insertionSort_while
  \/ insertionSort_return
  \/ removeDuplicates_enter
  \/ removeDuplicates_while
  \/ removeDuplicates_return
  \/ removeDuplicates2_while
  \/ removeDuplicates2_return
  \/ partition_enter
  \/ partition_while
  \/ partition_return
  \/ partition2_while
  \/ partition2_return
  \/ isPalidrome_enter
  \/ isPalidrome_while
  \/ isPalidrome_true
  \/ removeNthFromEnd2_while
  \/ removeNthFromEnd2_return
  \/ removeNthFronEnd_call
  \/ removeNthFromBegining_while
  \/ removeNthFromBegining_return

\* the exercises on chains: one call of one function on one input
Spec == Init /\ [][Next]_vars

\* a MyLinkedList object and any sequence of calls of its methods
InitList ==
  /\ Init_MyLinkedList
  /\ in_next = next
  /\ pc = "run"
  /\ ret = Pending
  /\ self = NoSelf

NextList ==
  \/ MyLinkedList_get
  \/ MyLinkedList_addAtHead
  \/ MyLinkedList_addAtTail
  \/ MyLinkedList_addAtIndex
  \/ MyLinkedList_deleteAtIndex

SpecList == InitList /\ [][NextList]_vars

\* ================================================================= claims
\* what k-group reversal must produce from the sequence s
ReversedInGroups(s, k) ==
  [i \in 1..Len(s) |->
     IF i <= (Len(s) \div k) * k
     THEN s[((i - 1) \div k) * k + (k - ((i - 1) % k))]
     ELSE s[i]]

\* C1: when reverseListKAtATime(head, k) returns, the chain from the returned
\* head is the input with each of the floor(L/k) full groups of k reversed and
\* the last L mod k nodes in their original order; every input node occurs
\* exactly once and the chain ends in None.
C1_ReverseInKGroups ==
  (alg = "reverseListKAtATime" /\ pc = "done")
    => Chain(next, ret.v) = ReversedInGroups(InChain, arg.k)

\* a run with two full groups and a partial trailing group has returned
C1_Witness ==
  /\ alg = "reverseListKAtATime" /\ pc = "done"
  /\ Len(InChain) \div arg.k >= 2 /\ arg.k >= 2
  /\ Len(InChain) % arg.k >= 1
  /\ Chain(next, ret.v) = ReversedInGroups(InChain, arg.k)

\* the input positions lo..hi of s, in reverse order when rev
Positions(s, lo, hi) == [i \in 1..(hi - lo + 1) |-> s[lo + i - 1]]
Reverse(s) == [i \in 1..Len(s) |-> s[Len(s) + 1 - i]]

\* C2: when reverseBetween(head, m, n) returns (1 <= m <= n <= L), the chain
\* from the returned head is the input positions 1..m-1, then n down to m,
\* then n+1..L; with m = n that is the input chain itself.
C2_ReverseBetween ==
  (alg = "reverseBetween" /\ pc = "done")
    => /\ ret.kind = "return"
       /\ Chain(next, ret.v) =
            Positions(InChain, 1, arg.m - 1)
            \o Reverse(Positions(InChain, arg.m, arg.n))
            \o Positions(InChain, arg.n + 1, Len(InChain))
       /\ (arg.m = arg.n => Chain(next, ret.v) = InChain /\ next = in_next)

\* an inner range of at least three nodes, with nodes on both sides, reversed
C2_Witness ==
  /\ alg = "reverseBetween" /\ pc = "done"
  /\ arg.m > 1 /\ arg.n >= arg.m + 2 /\ arg.n < Len(InChain)
  /\ Chain(next, ret.v)[arg.m] = InChain[arg.n]

\* a call with m = n has returned
C2_WitnessSame ==
  /\ alg = "reverseBetween" /\ pc = "done" /\ arg.m = arg.n
  /\ Len(InChain) >= 2

\* the first node that the walk from head meets a second time, None if none
RECURSIVE FirstRepeated(_, _)
FirstRepeated(h, seen) ==
  IF h = None THEN None
  ELSE IF h \in seen THEN h
  ELSE FirstRepeated(in_next[h], seen \cup {h})

FairSpec == Spec /\ WF_vars(Next)

\* C3: detectCycle2(head) terminates, and what it returns is None on an
\* acyclic chain and the node the tail points back to on a cyclic one.
C3_DetectCycle ==
  /\ [](alg = "detectCycle2" /\ pc = "done"
          => ret = Returned(FirstRepeated(arg.head, {})))
  /\ (alg = "detectCycle2" ~> pc = "done")

\* a cycle entered at an inner node was found
C3_Witness ==
  /\ alg = "detectCycle2" /\ pc = "done"
  /\ ret.v # None /\ ret.v # arg.head /\ in_next[ret.v] # arg.head
  /\ \E t \in Nodes : t # ret.v /\ in_next[t] = ret.v /\ t > ret.v

\* an acyclic chain of several nodes was reported acyclic
C3_WitnessAcyclic ==
  /\ alg = "detectCycle2" /\ pc = "done"
  /\ ret.v = None /\ Len(InChain) >= 3

Range(s) == {s[i] : i \in 1..Len(s)}

\* the first node of chain A that also belongs to chain B, None if none
FirstShared ==
  LET A == Chain(in_next, arg.headA)
      B == Range(Chain(in_next, arg.headB))
      hits == {i \in 1..Len(A) : A[i] \in B}
  IN IF hits = {} THEN None
     ELSE A[CHOOSE i \in hits : \A j \in hits : i <= j]

\* C4: intersect(headA, headB) terminates, and it returns the first node that
\* belongs to both chains, and None when they share no node.
C4_Intersect ==
  /\ [](alg = "intersect" /\ pc = "done" => ret = Returned(FirstShared))
  /\ (alg = "intersect" ~> pc = "done")

\* chains of different private lengths with a shared suffix were intersected
C4_Witness ==
  /\ alg = "intersect" /\ pc = "done"
  /\ ret.v # None /\ ret.v # arg.headA /\ ret.v # arg.headB
  /\ Len(Chain(in_next, arg.headA)) # Len(Chain(in_next, arg.headB))

\* two non-empty disjoint chains were intersected
C4_WitnessDisjoint ==
  /\ alg = "intersect" /\ pc = "done"
  /\ ret.v = None /\ arg.headA # None /\ arg.headB # None

\* position of node x in the sequence s
PosIn(s, x) == CHOOSE i \in 1..Len(s) : s[i] = x

\* the subsequence of s at the indices in keep
RECURSIVE Pick(_, _, _)
Pick(s, keep, i) ==
  IF i > Len(s) THEN <<>>
  ELSE (IF i \in keep THEN <<s[i]>> ELSE <<>>) \o Pick(s, keep, i + 1)

\* C5 as stated: insertionSort is stable, nodes of equal value come out in
\* their input order.
C5_Stable ==
  (alg = "insertionSort" /\ pc = "done")
    => LET r == Chain(next, ret.v)
       IN \A i \in 1..Len(r) : \A j \in 1..Len(r) :
            (i < j /\ val[r[i]] = val[r[j]])
              => PosIn(InChain, r[i]) < PosIn(InChain, r[j])

\* C5 amended: insertNode puts a node before the nodes of equal value (it
\* stops at the first node whose value is >= the node's), so in the sorted
\* list built so far, and in the returned chain, nodes of equal value are in
\* the reverse of their input order; the result holds every input node.
C5_ReversesEqualValues ==
  (alg = "insertionSort")
    => LET r == Chain(next, loc.newList)
       IN /\ \A i \in 1..Len(r) : \A j \in 1..Len(r) :
               i < j => /\ val[r[i]] <= val[r[j]]
                        /\ (val[r[i]] = val[r[j]]
                              => PosIn(InChain, r[i]) > PosIn(InChain, r[j]))
          /\ (pc = "done" => /\ ret = Returned(loc.newList)
                             /\ Len(r) = Len(InChain)
                             /\ Range(r) = Range(InChain))

\* a chain with three nodes of one value and a node of another was sorted
C5_Witness ==
  /\ alg = "insertionSort" /\ pc = "done"
  /\ \E x \in Range(InChain) : \E y \in Range(InChain) : \E z \in Range(InChain) :
       /\ x < y /\ y < z /\ val[x] = val[y] /\ val[y] = val[z]
       /\ \E w \in Range(InChain) : w < x /\ val[w] > val[x]

SameValueBefore(s, i) == \E j \in 1..(i - 1) : val[s[j]] = val[s[i]]
SameValueElsewhere(s, i) == \E j \in 1..Len(s) : j # i /\ val[s[j]] = val[s[i]]

\* C6 as stated: both duplicate removals return one node per distinct value
\* of the sorted input, in the original order.
C6_KeepsOnePerValue ==
  (alg \in {"removeDuplicates", "removeDuplicates2"} /\ pc = "done")
    => ValuesOf(Chain(next, ret.v)) =
         ValuesOf(Pick(InChain,
                       {i \in 1..Len(InChain) : ~SameValueBefore(InChain, i)},
                       1))

\* C6 amended: removeDuplicates2 returns the first node of every run of equal
\* values, one node per distinct value; removeDuplicates returns exactly the
\* nodes whose value occurs once in the input, and drops every value that
\* occurs several times.
C6_DuplicateRemoval ==
  /\ (alg = "removeDuplicates2" /\ pc = "done")
       => Chain(next, ret.v) =
            Pick(InChain,
                 {i \in 1..Len(InChain) : ~SameValueBefore(InChain, i)}, 1)
  /\ (alg = "removeDuplicates" /\ pc = "done")
       => Chain(next, ret.v) =
            Pick(InChain,
                 {i \in 1..Len(InChain) : ~SameValueElsewhere(InChain, i)}, 1)

\* removeDuplicates has returned on an input with a repeated value between
\* two values that occur once
C6_Witness ==
  /\ alg = "removeDuplicates" /\ pc = "done"
  /\ \E i \in 2..(Len(InChain) - 2) :
       /\ val[InChain[i]] = val[InChain[i + 1]]
       /\ ~SameValueElsewhere(InChain, 1)
       /\ ~SameValueElsewhere(InChain, Len(InChain))

\* C7: partition and partition2 return every input node exactly once, the
\* nodes of value < pivot first and those of value >= pivot after them, each
\* group in input order, and the chain ends in None.
C7_StablePartition ==
  (alg \in {"partition", "partition2"} /\ pc = "done")
    => Chain(next, ret.v) =
         Pick(InChain,
              {i \in 1..Len(InChain) : val[InChain[i]] < arg.value}, 1)
         \o Pick(InChain,
                 {i \in 1..Len(InChain) : val[InChain[i]] >= arg.value}, 1)

\* partition has returned on a chain that starts with a node >= pivot and
\* has two nodes on each side of the pivot, interleaved
C7_Witness ==
  /\ alg = "partition" /\ pc = "done"
  /\ Len(InChain) >= 4
  /\ val[InChain[1]] >= arg.value /\ val[InChain[2]] < arg.value
  /\ val[InChain[3]] >= arg.value /\ val[InChain[4]] < arg.value

\* partition2 has returned on a chain whose values are all >= pivot
C7_WitnessAllGe ==
  /\ alg = "partition2" /\ pc = "done"
  /\ Len(InChain) >= 3
  /\ \A i \in 1..Len(InChain) : val[InChain[i]] >= arg.value

\* C8: isPalidrome returns True exactly when the value sequence of the chain
\* equals its own reverse (so True for lengths 0 and 1, odd or even length).
C8_Palindrome ==
  (alg = "isPalidrome" /\ pc = "done")
    => ret = Returned(ValuesOf(InChain) = Reverse(ValuesOf(InChain)))

\* a palindrome of odd length >= 3 with more than one value was accepted
C8_Witness ==
  /\ alg = "isPalidrome" /\ pc = "done" /\ ret.v = TRUE
  /\ Len(InChain) >= 3 /\ Len(InChain) % 2 = 1
  /\ val[InChain[1]] # val[InChain[2]]

\* a chain of even length whose two halves are equal, not mirrored, was rejected
C8_WitnessRejected ==
  /\ alg = "isPalidrome" /\ pc = "done" /\ ret.v = FALSE
  /\ Len(InChain) = 4
  /\ val[InChain[1]] = val[InChain[3]] /\ val[InChain[2]] = val[InChain[4]]

\* the node that removal of the n-th node from the end drops
Removed == InChain[Len(InChain) - arg.n + 1]

C10_GetInvalidIndex ==
  /\ [](alg = "MyLinkedList" /\ arg.op = "get"
          /\ (arg.index < 0 \/ arg.index >= self.length)
          => ret = Returned(-1))
  /\ [][MyLinkedList_get => UNCHANGED <<self, next, val>>]_vars

LengthA == Len(Chain(in_next, arg.headA))
LengthB == Len(Chain(in_next, arg.headB))

\* C11 as stated: the while loop of intersect makes at most
\* length(A) + length(B) iterations.
C11_StepsWithinSum ==
  (alg = "intersect") => loc.steps <= LengthA + LengthB

\* C11 amended: the loop makes at most length(A) + length(B) + 1 iterations;
\* length(A) + length(B) suffice whenever the chains share a node, the extra
\* iteration is the step onto None that two disjoint chains of different
\* lengths need.
C11_StepsWithinSumPlusOne ==
  (alg = "intersect")
    => /\ loc.steps <= LengthA + LengthB + 1
       /\ (FirstShared # None => loc.steps <= LengthA + LengthB)

\* two non-empty disjoint chains of different lengths took all the iterations
C11_Witness ==
  /\ alg = "intersect" /\ pc = "done"
  /\ arg.headA # None /\ arg.headB # None /\ FirstShared = None
  /\ LengthA # LengthB
  /\ loc.steps = LengthA + LengthB + 1

\* chains with a shared suffix and different private parts took
\* length(A) + length(B) - (shared nodes) + 1 iterations
C11_WitnessShared ==
  /\ alg = "intersect" /\ pc = "done"
  /\ FirstShared # None /\ LengthA # LengthB
  /\ loc.steps > LengthA /\ loc.steps > LengthB

\* C12: when isPalidrome returns, every node of the input is still reachable
\* from the caller's head and no node is the next of two different nodes.
C12_ChainRestored ==
  (alg = "isPalidrome" /\ pc = "done")
    => /\ Range(InChain) \subseteq Range(Chain(next, arg.head))
       /\ \A m, n \in Range(InChain) :
            (m # n /\ next[m] # None) => next[m] # next[n]

\* the nodes reachable from self.head
ListChain == Chain(next, self.head)

\* self.length counts the reachable nodes, no node is reached twice and the
\* last one points at None
ListConsistent ==
  /\ self.length = Len(ListChain)
  /\ \A i, j \in 1..Len(ListChain) : i # j => ListChain[i] # ListChain[j]
  /\ IF ListChain = <<>> THEN self.head = None
     ELSE next[ListChain[Len(ListChain)]] = None

\* the call just made was addAtIndex with index > length or deleteAtIndex with
\* index >= length
OutOfRangeCall ==
  \/ arg'.op = "addAtIndex" /\ arg'.index > self.length
  \/ arg'.op = "deleteAtIndex" /\ arg'.index >= self.length

\* C13: after any sequence of MyLinkedList operations self.length equals the
\* number of nodes reachable from self.head and the chain from self.head is
\* acyclic and ends in None; addAtIndex with index > length and deleteAtIndex
\* with index >= length return normally and change neither the chain nor
\* length.
C13_LengthMatchesChain ==
  /\ [](alg = "MyLinkedList" => ListConsistent)
  /\ [][OutOfRangeCall => /\ UNCHANGED <<self, next, val>>
                          /\ ret' = Returned(None)]_vars

\* an addAtIndex beyond the end of a list of two or more nodes was ignored
C13_Witness ==
  /\ alg = "MyLinkedList" /\ arg.op = "addAtIndex"
  /\ arg.index > self.length /\ self.length >= 2
  /\ ret = Returned(None)

\* a deleteAtIndex beyond the end of a non-empty list was ignored
C13_WitnessDelete ==
  /\ alg = "MyLinkedList" /\ arg.op = "deleteAtIndex"
  /\ arg.index > self.length /\ self.length >= 1
  /\ ret = Returned(None)

\* a node was inserted in the middle of the list: the list is full and the
\* call was addAtIndex with 0 < index < length - 1
C13_WitnessMiddle ==
  /\ alg = "MyLinkedList" /\ arg.op = "addAtIndex"
  /\ arg.index > 0 /\ arg.index < self.length - 1
  /\ self.length = MaxListLen /\ ret = Returned(None)
====
